---- MODULE Spec2Model ----
(***************************************************************************)
(* Model of the Canvas component of webgl-rc-example (ui/canvas.tsx): the  *)
(* effect that binds a rendering context to a canvas, the resize handler,  *)
(* the self-rescheduling repaint loop and the effect's cleanup, run under  *)
(* the host's single-threaded event loop (frame callbacks, timers, window  *)
(* events) and React's effect scheduling for the dependency list           *)
(* [init, paint].                                                          *)
(*                                                                         *)
(* Every run of the effect body creates one closure ("mount"), numbered    *)
(* 1, 2, ... in creation order.  The closure variables context, size and   *)
(* disposed are functions of the mount number.  Numbers that JavaScript    *)
(* holds as doubles are modelled as rationals <<numerator, denominator>>.  *)
(*                                                                         *)
(* The host keeps the frame callbacks in a list and runs, at each frame,   *)
(* all that are in the list when the frame starts, in the order they were  *)
(* requested; callbacks requested meanwhile wait for the next frame.  The  *)
(* resize timers all have the same delay, so they fire in the order they   *)
(* were set.                                                               *)
(***************************************************************************)
EXTENDS Integers, Sequences, FiniteSets, TLC

\* Bounds of the model.
MaxMounts == 2      \* runs of the effect body
MaxEvents == 1      \* viewport events handled by the listeners

Mounts == 1..MaxMounts

\* Identities of the functions passed as the init and paint props: the two
\* that GlExample passes, and one other of each.
Inits == {"create_context", "other_init"}
Paints == {"draw_triangle", "other_paint"}

\* The two window events the effect listens to.
EventTypes == {"resize", "orientationchange"}

\* Layouts the host can present: client width and client height of the
\* canvas in CSS pixels.
Layouts ==
    { [w |-> 320, h |-> 200],
      [w |-> 400, h |-> 200] }

\* Values of devicePixelRatio, as rationals; the ratio of a run is fixed.
Densities == { <<2, 1>>, <<4, 3>> }

VARIABLES
    rendered,           \* the Canvas component is in the React tree
    deps,               \* the dependency list React stored at the last effect run
    bound,              \* the mount whose cleanup React holds, 0 when none
    clientWidth,        \* canvas.clientWidth
    clientHeight,       \* canvas.clientHeight
    devicePixelRatio,   \* window.devicePixelRatio
    attrWidth,          \* the canvas "width" attribute, <<>> while absent
    attrHeight,         \* the canvas "height" attribute, <<>> while absent
    listeners,          \* registered window listeners, <<type, mount>>
    raf,                \* pending frame callbacks: their mounts, in request order
    timeouts,           \* pending resize timers: their mounts, in the order set
    context,            \* closure variable context: "none" or "ctx"
    size,               \* closure variable size
    disposed,           \* closure variable disposed
    paintFn,            \* the paint prop the mount was created with
    initCalls,          \* calls of init made by each mount
    freeCalls,          \* calls of context.free() made for each mount
    initSaw,            \* unreleased contexts that existed when init was called
    freeSaw,            \* what held when context.free() was called
    writes,             \* completed writes of size by each mount
    lastWrite,          \* the pair stored by the latest write of each mount
    events,             \* viewport events handled by each mount
    lastPaint,          \* the paint calls made by the step just taken
    errors              \* the error each mount threw to the host, or "none"

vars == << rendered, deps, bound, clientWidth, clientHeight,
           devicePixelRatio, attrWidth, attrHeight, listeners, raf, timeouts,
           context, size, disposed, paintFn, initCalls, freeCalls,
           initSaw, freeSaw, writes, lastWrite, events, lastPaint,
           errors >>

----------------------------------------------------------------------------
\* Numbers.

\* integer * rational
Times(k, q) == << k * q[1], q[2] >>

\* Number.prototype.toFixed(0) of a non-negative number: the nearest
\* integer, the larger one on a tie.
toFixed0(q) == (2 * q[1] + q[2]) \div (2 * q[2])

\* size = [0, 0]
ZeroSize == << <<0, 1>>, <<0, 1>> >>

----------------------------------------------------------------------------
\* The state as one record, so that the handlers compose as functions.
\* lastPaint starts every step empty.
State ==
    [ rendered |-> rendered, deps |-> deps, bound |-> bound,
      clientWidth |-> clientWidth, clientHeight |-> clientHeight,
      devicePixelRatio |-> devicePixelRatio,
      attrWidth |-> attrWidth, attrHeight |-> attrHeight,
      listeners |-> listeners, raf |-> raf, timeouts |-> timeouts,
      context |-> context, size |-> size, disposed |-> disposed,
      paintFn |-> paintFn,
      initCalls |-> initCalls, freeCalls |-> freeCalls,
      initSaw |-> initSaw, freeSaw |-> freeSaw,
      writes |-> writes, lastWrite |-> lastWrite, events |-> events,
      lastPaint |-> <<>>, errors |-> errors ]

Apply(n) ==
    /\ rendered' = n.rendered
    /\ deps' = n.deps
    /\ bound' = n.bound
    /\ clientWidth' = n.clientWidth
    /\ clientHeight' = n.clientHeight
    /\ devicePixelRatio' = n.devicePixelRatio
    /\ attrWidth' = n.attrWidth
    /\ attrHeight' = n.attrHeight
    /\ listeners' = n.listeners
    /\ raf' = n.raf
    /\ timeouts' = n.timeouts
    /\ context' = n.context
    /\ size' = n.size
    /\ disposed' = n.disposed
    /\ paintFn' = n.paintFn
    /\ initCalls' = n.initCalls
    /\ freeCalls' = n.freeCalls
    /\ initSaw' = n.initSaw
    /\ freeSaw' = n.freeSaw
    /\ writes' = n.writes
    /\ lastWrite' = n.lastWrite
    /\ events' = n.events
    /\ lastPaint' = n.lastPaint
    /\ errors' = n.errors

----------------------------------------------------------------------------
\* The closures of the effect body.

\* Mounts created so far, and the number of the next one.
Created(s) == { k \in Mounts : s.initCalls[k] > 0 }
NextMount(s) == Cardinality(Created(s)) + 1

\* Contexts that init returned and that were not freed.
Unreleased(s) == { k \in Mounts : s.context[k] = "ctx" /\ s.freeCalls[k] = 0 }

\* resize that takes the client size for the size in physical pixels
computeSizeCss(s) ==
    << Times(s.clientWidth, <<1, 1>>),
       Times(s.clientHeight, <<1, 1>>) >>

\* The pair resize computes from the layout.
computeSize(s) ==
    << Times(s.clientWidth, s.devicePixelRatio),
       Times(s.clientHeight, s.devicePixelRatio) >>

\* resize without the check of disposed
resizeNoGuard(s, m) ==
    LET sz == computeSize(s)
    IN [s EXCEPT !.size[m] = sz,
                 !.attrWidth = << toFixed0(sz[1]) >>,
                 !.attrHeight = << toFixed0(sz[2]) >>,
                 !.writes[m] = @ + 1,
                 !.lastWrite[m] = sz]

\* function resize()
resize(s, m) ==
    IF ~s.disposed[m]
    THEN LET sz == computeSize(s)
         IN [s EXCEPT !.size[m] = sz,
                      !.attrWidth = << toFixed0(sz[1]) >>,
                      !.attrHeight = << toFixed0(sz[2]) >>,
                      !.writes[m] = @ + 1,
                      !.lastWrite[m] = sz]
    ELSE s

\* setTimeout(resize, 200)
setTimeoutResize(s, m) == [s EXCEPT !.timeouts = Append(@, m)]

\* timer callback that sets the timer again
timerCallbackInterval(s, m) == setTimeoutResize(resize(s, m), m)

\* The callback passed to setTimeout: resize itself.
timerCallback(s, m) == resize(s, m)

\* requestResize that forgets the delayed call
requestResizeNoTimer(s, m) == resize(s, m)

\* requestResize that cancels the pending timers before it sets one
requestResizeDebounced(s, m) ==
    [resize(s, m) EXCEPT !.timeouts = Append(SelectSeq(@, LAMBDA k : k # m), m)]

\* requestResize that also requests a frame
requestResizeAndRepaint(s, m) ==
    [setTimeoutResize(resize(s, m), m) EXCEPT !.raf = Append(@, m)]

\* function requestResize()
requestResize(s, m) == setTimeoutResize(resize(s, m), m)

\* requestAnimationFrame(() => ...)
requestRepaint(s, m) == [s EXCEPT !.raf = Append(@, m)]

\* paint arguments that take the width from the layout, not from size
paintArgsFresh(s, m) == << computeSize(s)[1], s.size[m][2] >>

\* The arguments of paint(context, size[0], size[1]).
paintArgs(s, m) == << s.size[m][1], s.size[m][2] >>

\* The call paint(context, size[0], size[1]), recorded with its arguments,
\* with whether it returns and with what held when it was made.
callPaint(s, m, ok) ==
    [s EXCEPT !.lastPaint = Append(@, [ mount |-> m,
                                        fn |-> s.paintFn[m],
                                        args |-> paintArgs(s, m),
                                        ok |-> ok,
                                        disposed |-> s.disposed[m],
                                        released |-> s.freeCalls[m] > 0,
                                        bound |-> s.bound ])]

\* frame callback that paints and requests no further frame
frameCallbackPaintOnce(s, m, ok) ==
    IF ~s.disposed[m]
    THEN LET s1 == callPaint(s, m, ok)
         IN IF ok
            THEN s1
            ELSE [s1 EXCEPT !.errors[m] = "paint"]
    ELSE s

\* frame callback that calls resize before it paints
frameCallbackResizing(s, m, ok) ==
    IF ~s.disposed[m]
    THEN LET s1 == callPaint(resize(s, m), m, ok)
         IN IF ok
            THEN requestRepaint(s1, m)
            ELSE [s1 EXCEPT !.errors[m] = "paint"]
    ELSE s

\* frame callback without the check of disposed
frameCallbackNoGuard(s, m, ok) ==
    LET s1 == callPaint(s, m, ok)
    IN IF ok
       THEN requestRepaint(s1, m)
       ELSE [s1 EXCEPT !.errors[m] = "paint"]

\* frame callback that requests the next frame before it paints
frameCallbackRescheduleFirst(s, m, ok) ==
    IF ~s.disposed[m]
    THEN LET s1 == callPaint(requestRepaint(s, m), m, ok)
         IN IF ok
            THEN s1
            ELSE [s1 EXCEPT !.errors[m] = "paint"]
    ELSE s

\* frame callback that requests the next frame outside the check of disposed
frameCallbackAlwaysReschedule(s, m, ok) ==
    IF ~s.disposed[m]
    THEN LET s1 == callPaint(s, m, ok)
         IN IF ok
            THEN requestRepaint(s1, m)
            ELSE [s1 EXCEPT !.errors[m] = "paint"]
    ELSE requestRepaint(s, m)

\* The frame callback of requestRepaint; ok says whether paint returns.
frameCallback(s, m, ok) ==
    IF ~s.disposed[m]
    THEN LET s1 == callPaint(s, m, ok)
         IN IF ok
            THEN requestRepaint(s1, m)
            ELSE [s1 EXCEPT !.errors[m] = "paint"]
    ELSE s

\* The host runs the frame callbacks in q, in order.
RECURSIVE runCallbacks(_, _, _)
runCallbacks(s, q, ok) ==
    IF q = <<>> THEN s
    ELSE runCallbacks(frameCallback(s, Head(q), ok), Tail(q), ok)

\* window.addEventListener(...), twice
addListeners(s, m) ==
    [s EXCEPT !.listeners = @ \cup { <<"resize", m>>, <<"orientationchange", m>> }]

\* cleanup that removes the resize listener only
removeListenersResizeOnly(s, m) ==
    [s EXCEPT !.listeners = @ \ { <<"resize", m>> }]

\* window.removeEventListener(...), twice
removeListeners(s, m) ==
    [s EXCEPT !.listeners = @ \ { <<"resize", m>>, <<"orientationchange", m>> }]

\* context.free()
free(s, m) ==
    [s EXCEPT !.freeCalls[m] = @ + 1,
              !.freeSaw[m] = << [ disposed |-> s.disposed[m],
                                  listeners |-> { l \in s.listeners : l[2] = m },
                                  inits |-> s.initCalls[m] ] >>]

\* cleanup that leaves disposed as it is
cleanupNoDispose(s, m) == free(removeListeners(s, m), m)

\* cleanup that frees the context first
cleanupFreeFirst(s, m) ==
    LET s1 == free(s, m)
        s2 == [s1 EXCEPT !.disposed[m] = TRUE]
    IN removeListeners(s2, m)

\* The function the effect returns.
cleanup(s, m) ==
    LET s1 == [s EXCEPT !.disposed[m] = TRUE]
        s2 == removeListeners(s1, m)
    IN free(s2, m)

\* effect body that leaves the first resize to the timer
effectRestDeferredResize(s, m) ==
    LET s1 == requestRepaint(s, m)
        s2 == setTimeoutResize(s1, m)
    IN addListeners(s2, m)

\* The effect body after init returned.
effectRest(s, m) ==
    LET s1 == requestRepaint(s, m)
        s2 == requestResize(s1, m)
    IN addListeners(s2, m)

\* effect that starts the repaint loop before it calls init
effectRepaintFirst(s, i, p, ok) ==
    LET m == NextMount(s)
        s1 == [s EXCEPT !.deps = <<i, p>>,
                        !.paintFn[m] = p,
                        !.initCalls[m] = @ + 1,
                        !.initSaw[m] = Cardinality(Unreleased(s)),
                        !.raf = Append(@, m)]
    IN IF ok
       THEN addListeners(requestResize([s1 EXCEPT !.context[m] = "ctx",
                                                  !.size[m] = ZeroSize,
                                                  !.disposed[m] = FALSE,
                                                  !.bound = m], m), m)
       ELSE [s1 EXCEPT !.errors[m] = "init",
                       !.bound = 0,
                       !.rendered = FALSE]

\* effect whose disposed flag is one variable shared by all its runs
effectSharedFlag(s, i, p, ok) ==
    LET m == NextMount(s)
        s1 == [s EXCEPT !.deps = <<i, p>>,
                        !.paintFn[m] = p,
                        !.initCalls[m] = @ + 1,
                        !.initSaw[m] = Cardinality(Unreleased(s))]
    IN IF ok
       THEN effectRest([s1 EXCEPT !.context[m] = "ctx",
                                  !.size[m] = ZeroSize,
                                  !.disposed = [k \in Mounts |-> FALSE],
                                  !.bound = m], m)
       ELSE [s1 EXCEPT !.errors[m] = "init",
                       !.bound = 0,
                       !.rendered = FALSE]

\* The effect body; ok says whether init returns.
effect(s, i, p, ok) ==
    LET m == NextMount(s)
        s1 == [s EXCEPT !.deps = <<i, p>>,
                        !.paintFn[m] = p,
                        !.initCalls[m] = @ + 1,
                        !.initSaw[m] = Cardinality(Unreleased(s))]
    IN IF ok
       THEN effectRest([s1 EXCEPT !.context[m] = "ctx",
                                  !.size[m] = ZeroSize,
                                  !.disposed[m] = FALSE,
                                  !.bound = m], m)
       ELSE \* the throw leaves the effect without a cleanup, and React
            \* takes the component out of the tree
            [s1 EXCEPT !.errors[m] = "init",
                       !.bound = 0,
                       !.rendered = FALSE]

\* an effect without a dependency list runs after every render
depsChangedAlways(s, i, p) == TRUE

\* React compares the dependency list [init, paint] with the stored one.
depsChanged(s, i, p) == s.deps # <<i, p>>

\* A render of a component that is in the tree.
rerender(s, i, p, ok) ==
    IF depsChanged(s, i, p)
    THEN effect(cleanup(s, s.bound), i, p, ok)
    ELSE s

\* The window dispatches an event to the listeners registered for it.  At
\* most one mount has listeners; they are run in registration order.
RECURSIVE dispatch(_, _)
dispatch(s, ms) ==
    IF ms = {} THEN s
    ELSE LET m == CHOOSE k \in ms : \A j \in ms : k <= j
         IN dispatch([requestResize(s, m) EXCEPT !.events[m] = @ + 1], ms \ {m})

setLayout(s, l) ==
    [s EXCEPT !.clientWidth = l.w, !.clientHeight = l.h]

----------------------------------------------------------------------------
\* Initial state: nothing rendered, the host shows some layout at some
\* pixel density.

Init ==
    /\ rendered = FALSE
    /\ deps = <<>>
    /\ bound = 0
    /\ \E l \in Layouts :
          /\ clientWidth = l.w
          /\ clientHeight = l.h
    /\ devicePixelRatio \in Densities
    /\ attrWidth = <<>>
    /\ attrHeight = <<>>
    /\ listeners = {}
    /\ raf = <<>>
    /\ timeouts = <<>>
    /\ context = [m \in Mounts |-> "none"]
    /\ size = [m \in Mounts |-> ZeroSize]
    /\ disposed = [m \in Mounts |-> FALSE]
    /\ paintFn = [m \in Mounts |-> "none"]
    /\ initCalls = [m \in Mounts |-> 0]
    /\ freeCalls = [m \in Mounts |-> 0]
    /\ initSaw = [m \in Mounts |-> 0]
    /\ freeSaw = [m \in Mounts |-> <<>>]
    /\ writes = [m \in Mounts |-> 0]
    /\ lastWrite = [m \in Mounts |-> <<>>]
    /\ events = [m \in Mounts |-> 0]
    /\ lastPaint = <<>>
    /\ errors = [m \in Mounts |-> "none"]

----------------------------------------------------------------------------
\* Actions: one per task the host or React runs.

RECURSIVE Sum(_, _)
Sum(f, ms) ==
    IF ms = {} THEN 0
    ELSE LET m == CHOOSE k \in ms : TRUE IN f[m] + Sum(f, ms \ {m})

EventsDone == Sum(events, Mounts)

\* ReactDOM renders GlExample: React puts the component, with a new canvas
\* element, into the tree and runs the effect.
Mount(ok) ==
    /\ ~rendered
    /\ NextMount(State) <= MaxMounts
    /\ Apply(effect([State EXCEPT !.rendered = TRUE,
                                  !.attrWidth = <<>>,
                                  !.attrHeight = <<>>],
                    "create_context", "draw_triangle", ok))

\* React renders the component again with props init = i, paint = p.
Rerender(i, p, ok) ==
    /\ rendered
    /\ depsChanged(State, i, p) => NextMount(State) <= MaxMounts
    /\ Apply(rerender(State, i, p, ok))

\* React takes the component out of the tree and runs the cleanup.
Unmount ==
    /\ rendered
    /\ Apply([cleanup(State, bound) EXCEPT !.rendered = FALSE, !.bound = 0])

\* A frame: the host runs the pending frame callbacks; ok says whether the
\* paint calls of this frame return.
Frame(ok) ==
    /\ raf # <<>>
    /\ Apply(runCallbacks([State EXCEPT !.raf = <<>>], raf, ok))

\* The host runs the resize timer that is due first.
TimerCallback ==
    /\ timeouts # <<>>
    /\ Apply(timerCallback([State EXCEPT !.timeouts = Tail(@)], Head(timeouts)))

\* The window fires a viewport event and runs its listeners.
ViewportEvent(type) ==
    LET ms == { m \in Mounts : <<type, m>> \in listeners }
    IN /\ ms # {}
       /\ EventsDone < MaxEvents
       /\ Apply(dispatch(State, ms))

\* The layout changes to l: the viewport changed (its event, if any, is a
\* later step), or the layout settled late.
LayoutChange(l) ==
    /\ << l.w, l.h >> # << clientWidth, clientHeight >>
    /\ Apply(setLayout(State, l))

Next ==
    \/ \E ok \in BOOLEAN : Mount(ok)
    \/ \E i \in Inits, p \in Paints, ok \in BOOLEAN : Rerender(i, p, ok)
    \/ Unmount
    \/ \E ok \in BOOLEAN : Frame(ok)
    \/ TimerCallback
    \/ \E type \in EventTypes : ViewportEvent(type)
    \/ \E l \in Layouts : LayoutChange(l)

Spec == Init /\ [][Next]_vars

\* The host runs every requested frame callback and every timer that was
\* set: a pending frame is eventually run, a pending timer eventually fires.
FairSpec ==
    /\ Spec
    /\ WF_vars(\E ok \in BOOLEAN : Frame(ok))
    /\ WF_vars(TimerCallback)

----------------------------------------------------------------------------
\* Properties.

OwnListeners(m) == { <<"resize", m>>, <<"orientationchange", m>> }

\* The number of entries of mount m in the queue q.
Pending(q, m) == Cardinality({ k \in 1..Len(q) : q[k] = m })

PaintCalls == 1..Len(lastPaint)

\* C1: a mount calls init once; a mount that was unmounted had init called
\* once and free called once, free after init, and free was called when
\* disposed was already true and both listeners were already removed; a
\* mount that was not unmounted has not been freed, and no later callback
\* frees a second time.
C1_InitOnceReleaseOnce ==
    \A m \in Mounts :
        /\ initCalls[m] <= 1
        /\ freeCalls[m] <= 1
        /\ disposed[m] =>
              /\ initCalls[m] = 1
              /\ context[m] = "ctx"
              /\ freeCalls[m] = 1
              /\ freeSaw[m] = << [ disposed |-> TRUE, listeners |-> {}, inits |-> 1 ] >>
        /\ ~disposed[m] => freeCalls[m] = 0 /\ freeSaw[m] = <<>>

\* An unmounted mount all of whose callbacks have run since.
C1_Witness ==
    \E m \in Mounts :
        disposed[m] /\ freeCalls[m] = 1 /\ errors[m] = "none"
                    /\ Pending(raf, m) = 0 /\ Pending(timeouts, m) = 0

\* C2: every paint call is made by a mount whose disposed flag is false at
\* the call, also when the frame callback was queued before the unmount.
C2_NoPaintAfterDisposed ==
    \A c \in PaintCalls :
        /\ ~lastPaint[c].disposed
        /\ ~disposed[lastPaint[c].mount]

\* A frame callback that was pending at unmount has fired, without a paint.
C2_Witness ==
    \E m \in Mounts :
        disposed[m] /\ Pending(raf, m) = 0 /\ errors[m] = "none"
                    /\ lastPaint = <<>>

\* C3 as stated: a mount makes at most one write per handled event plus the
\* two of the mount.
C3_Original ==
    \A m \in Mounts : context[m] = "ctx" => writes[m] <= events[m] + 2

\* C3 amended: the mount and every handled event make one immediate write
\* and schedule one delayed write, so a mount that is not disposed has made
\* 2 * (events + 1) writes less its pending timers, and a disposed one
\* between events + 1 and 2 * (events + 1).
C3_WritesPerEvent ==
    \A m \in Mounts :
        /\ context[m] # "ctx" => writes[m] = 0
        /\ context[m] = "ctx" /\ ~disposed[m] =>
              writes[m] = 2 * (events[m] + 1) - Pending(timeouts, m)
        /\ context[m] = "ctx" /\ disposed[m] =>
              /\ writes[m] >= events[m] + 1
              /\ writes[m] <= 2 * (events[m] + 1)

\* A mount that handled an event and whose timers all fired.
C3_Witness ==
    \E m \in Mounts :
        ~disposed[m] /\ events[m] >= 1 /\ Pending(timeouts, m) = 0
                     /\ writes[m] >= 4

\* C4: no step changes size or the write count of a disposed mount, and a
\* resize timer of a disposed mount that fires leaves every size and the
\* canvas width and height attributes unchanged.
C4_NoWriteAfterDisposed ==
    [][ \A m \in Mounts :
          disposed[m] =>
             /\ size'[m] = size[m]
             /\ writes'[m] = writes[m]
             /\ Pending(timeouts', m) < Pending(timeouts, m) =>
                   /\ size' = size
                   /\ attrWidth' = attrWidth
                   /\ attrHeight' = attrHeight ]_vars

\* A disposed mount one of whose timers fired after the unmount.
C4_Witness ==
    \E m \in Mounts :
        disposed[m] /\ Pending(timeouts, m) = 0
                    /\ writes[m] < 2 * (events[m] + 1)

\* C5 as stated: at most one resize timer of a mount is pending.
C5_Original == \A m \in Mounts : Pending(timeouts, m) <= 1

\* C5 amended: nothing is coalesced; every handled event adds one pending
\* resize timer to those already pending, so the pending timers of a mount
\* number at most its handled events plus one.
C5_TimerPerEvent ==
    /\ [](\A m \in Mounts : Pending(timeouts, m) <= events[m] + 1)
    /\ [][ \A m \in Mounts :
             events'[m] = events[m] + 1 =>
                Pending(timeouts', m) = Pending(timeouts, m) + 1 ]_vars

\* An event was handled while the timer of the mount was still pending.
C5_Witness == \E m \in Mounts : events[m] >= 1 /\ Pending(timeouts, m) >= 2

\* C6: the registered listeners are the two of the bound mount, and none
\* when no mount is bound.
C6_ListenersOfBoundMount ==
    listeners = IF bound = 0 THEN {} ELSE OwnListeners(bound)

\* After a remount the listeners are those of the second mount.
C6_Witness ==
    /\ bound = 2
    /\ disposed[1]
    /\ listeners = OwnListeners(2)

\* C7: a mount whose init threw has its error delivered, is not bound, has
\* no frame callback, no timer, no size write, no listener and no context,
\* and is never freed.
C7_InitFailureLeavesNothing ==
    \A m \in Mounts :
        errors[m] = "init" =>
            /\ bound # m
            /\ context[m] = "none"
            /\ Pending(raf, m) = 0
            /\ Pending(timeouts, m) = 0
            /\ writes[m] = 0
            /\ size[m] = ZeroSize
            /\ lastWrite[m] = <<>>
            /\ listeners \cap OwnListeners(m) = {}
            /\ freeCalls[m] = 0
            /\ ~disposed[m]

\* init threw, on the first mount or on a remount.
C7_Witness == \E m \in Mounts : errors[m] = "init" /\ initCalls[m] = 1

\* C8: a paint call that throws is delivered as an error of its mount, and a
\* mount whose paint threw has no pending frame callback and makes no
\* further paint call.
C8_PaintFailureHalts ==
    /\ \A m \in Mounts :
          errors[m] = "paint" =>
             /\ Pending(raf, m) = 0
             /\ \A c \in PaintCalls : lastPaint[c].mount = m => ~lastPaint[c].ok
    /\ \A c \in PaintCalls :
          ~lastPaint[c].ok => errors[lastPaint[c].mount] = "paint"

\* A mount whose paint threw is still bound and has made a later step.
C8_Witness ==
    \E m \in Mounts :
        errors[m] = "paint" /\ bound = m /\ lastPaint = <<>> /\ events[m] > 0

\* C9: the width and height of a paint call are the pair stored by the
\* latest write of its mount.
C9_PaintSeesLatestWrite ==
    \A c \in PaintCalls :
        /\ lastWrite[lastPaint[c].mount] # <<>>
        /\ lastPaint[c].args = lastWrite[lastPaint[c].mount]

\* A paint call after two writes, made when the layout is no longer the one
\* of the latest write.
C9_Witness ==
    \E c \in PaintCalls :
        /\ writes[lastPaint[c].mount] >= 2
        /\ lastPaint[c].args # computeSize(State)

\* C10: a render with the same init and paint changes nothing (neither init
\* nor free is called); init is called only when no context is unreleased,
\* so at most one unreleased context exists; and a render with another init
\* or paint frees the bound mount and binds a new one.
C10_RemountOnIdentityChange ==
    /\ Cardinality(Unreleased(State)) <= 1
    /\ \A m \in Mounts : initSaw[m] = 0
    /\ rendered =>
          /\ \A ok \in BOOLEAN : rerender(State, deps[1], deps[2], ok) = State
          /\ NextMount(State) <= MaxMounts =>
                \A i \in Inits, p \in Paints :
                    <<i, p>> # deps =>
                        LET n == rerender(State, i, p, TRUE)
                        IN /\ n.bound = NextMount(State)
                           /\ n.initCalls[n.bound] = 1
                           /\ n.freeCalls[bound] = 1
                           /\ n.disposed[bound]

\* A remount has happened: the first context is freed, the second is live.
C10_Witness ==
    /\ rendered
    /\ bound = 2
    /\ freeCalls[1] = 1
    /\ Unreleased(State) = {2}

\* C11: a frame callback or a resize timer of a disposed mount changes
\* nothing when it runs, no step adds a pending frame callback or a pending
\* timer to a disposed mount, and once the host has run what was pending, a
\* disposed mount has no pending frame callback and no pending timer, for
\* good.
C11_StaleCallbacksDrain ==
    /\ [](\A m \in Mounts :
            disposed[m] =>
               /\ resize(State, m) = State
               /\ \A ok \in BOOLEAN : frameCallback(State, m, ok) = State)
    /\ [][ \A m \in Mounts :
             disposed[m] =>
                /\ Pending(raf', m) <= Pending(raf, m)
                /\ Pending(timeouts', m) <= Pending(timeouts, m) ]_vars
    /\ \A m \in Mounts :
          disposed[m] ~> [](Pending(raf, m) = 0 /\ Pending(timeouts, m) = 0)

\* The timer and the frame callback that were pending at the unmount have
\* both run, the timer without a write, while a later mount is bound.
C11_Witness ==
    \E m \in Mounts :
        /\ disposed[m] /\ errors[m] = "none" /\ events[m] = 0
        /\ writes[m] = 1
        /\ Pending(raf, m) = 0 /\ Pending(timeouts, m) = 0
        /\ bound # 0 /\ bound # m

\* C12: a step in which a mount writes its size makes one write, and the
\* pair written is the client width and the client height the canvas has
\* in that step, each times devicePixelRatio; at ratio 2 a write at client
\* size 320 x 200 stores (640, 400) and one at 400 x 200 stores (800, 400),
\* and the canvas attributes are set to the same numbers.
C12_WriteFromClientSize ==
    [][ \A m \in Mounts :
          writes'[m] # writes[m] =>
             /\ writes'[m] = writes[m] + 1
             /\ size'[m] = lastWrite'[m]
             /\ lastWrite'[m][1][1] * devicePixelRatio'[2]
                   = clientWidth' * devicePixelRatio'[1] * lastWrite'[m][1][2]
             /\ lastWrite'[m][2][1] * devicePixelRatio'[2]
                   = clientHeight' * devicePixelRatio'[1] * lastWrite'[m][2][2]
             /\ devicePixelRatio' = <<2, 1>> /\ clientHeight' = 200 =>
                   /\ clientWidth' = 320 =>
                         /\ lastWrite'[m] = << <<640, 1>>, <<400, 1>> >>
                         /\ attrWidth' = <<640>> /\ attrHeight' = <<400>>
                   /\ clientWidth' = 400 =>
                         /\ lastWrite'[m] = << <<800, 1>>, <<400, 1>> >>
                         /\ attrWidth' = <<800>> /\ attrHeight' = <<400>> ]_vars

\* At ratio 2 the layout is 400 x 200 and the mount has handled a viewport
\* event; its latest write, the one of the event, stored (800, 400).
C12_Witness ==
    \E m \in Mounts :
        /\ devicePixelRatio = <<2, 1>>
        /\ clientWidth = 400 /\ clientHeight = 200
        /\ events[m] = 1 /\ writes[m] = 2 /\ Pending(timeouts, m) = 2
        /\ lastWrite[m] = << <<800, 1>>, <<400, 1>> >>
        /\ attrWidth = <<800>> /\ attrHeight = <<400>>

\* C13: a mount is unbound (no context, disposed false), then running
\* (context, disposed false, bound), then disposed.  disposed is false
\* until the cleanup of the mount runs, the step that sets it is the one
\* that unbinds the mount and frees its context, and once true it stays
\* true: no step makes a disposed mount running or bound again.
C13_DisposedIsTerminal ==
    /\ [](\A m \in Mounts :
            /\ context[m] = "none" => ~disposed[m] /\ bound # m
            /\ context[m] = "ctx" => (disposed[m] <=> bound # m)
            /\ disposed[m] <=> freeCalls[m] = 1)
    /\ [][ \A m \in Mounts :
             /\ context[m] = "none" /\ context'[m] = "ctx" =>
                   ~disposed'[m] /\ bound' = m
             /\ ~disposed[m] /\ disposed'[m] =>
                   /\ bound = m /\ bound' # m
                   /\ freeCalls'[m] = freeCalls[m] + 1
             /\ disposed[m] =>
                   /\ disposed'[m]
                   /\ context'[m] = "ctx"
                   /\ bound' # m ]_vars

\* The first mount is disposed; the second is running, has handled an
\* event, and the timers of the first have fired meanwhile.
C13_Witness ==
    /\ disposed[1] /\ Pending(timeouts, 1) = 0 /\ Pending(raf, 1) = 0
    /\ bound = 2 /\ ~disposed[2] /\ events[2] = 1

\* C14: a mount has at most one pending frame callback, and exactly one
\* while it is running and its paint has not thrown; a step makes at most
\* one paint call per mount, and only for a mount whose frame callback was
\* pending; a step that handles a viewport event or fires a resize timer
\* makes no paint call and leaves the pending frame callbacks as they are.
C14_OneFrameRequest ==
    /\ [](\A m \in Mounts :
            /\ Pending(raf, m) <= 1
            /\ bound = m /\ errors[m] = "none" => Pending(raf, m) = 1)
    /\ [](\A c, d \in PaintCalls :
            lastPaint[c].mount = lastPaint[d].mount => c = d)
    /\ [][ /\ \A c \in 1..Len(lastPaint') :
                Pending(raf, lastPaint'[c].mount) = 1
           /\ events' # events \/ Len(timeouts') < Len(timeouts) =>
                lastPaint' = <<>> /\ raf' = raf ]_vars

\* A running mount has handled an event, its two timers have fired, and
\* it has just painted with one frame callback pending.
C14_Witness ==
    \E m \in Mounts :
        /\ bound = m /\ events[m] = 1 /\ writes[m] = 4
        /\ Pending(timeouts, m) = 0 /\ Pending(raf, m) = 1
        /\ \E c \in PaintCalls : lastPaint[c].mount = m

\* C15: in a frame, the bound mount whose paint has not thrown makes one
\* paint call, and when the call returns the mount has one frame callback
\* pending again; so, the host running every pending frame, a mount that
\* stays bound for ever and whose paint never throws paints again and
\* again.
C15_RepaintLoopRuns ==
    /\ [][ \A ok \in BOOLEAN :
             Frame(ok) =>
                \A m \in Mounts :
                    bound = m /\ errors[m] = "none" =>
                       /\ Cardinality({ c \in 1..Len(lastPaint') :
                                           lastPaint'[c].mount = m }) = 1
                       /\ \A c \in 1..Len(lastPaint') :
                              lastPaint'[c].mount = m => lastPaint'[c].ok = ok
                       /\ Pending(raf', m) = IF ok THEN 1 ELSE 0 ]_vars
    /\ \A m \in Mounts :
          []<>(\/ bound # m
               \/ errors[m] # "none"
               \/ \E c \in PaintCalls : lastPaint[c].mount = m)

\* The bound mount has just painted, not for the first time in the frame
\* after the mount: its resize timer has fired already, and the next frame
\* callback is pending.
C15_Witness ==
    \E m \in Mounts :
        /\ bound = m /\ errors[m] = "none" /\ events[m] = 0
        /\ writes[m] = 2 /\ Pending(raf, m) = 1
        /\ \E c \in PaintCalls : lastPaint[c].mount = m /\ lastPaint[c].ok

\* C16: the step that creates a mount makes one write and sets one timer;
\* a step that fires a timer removes it and sets none, so no step but the
\* handling of a viewport event adds a timer; a mount that has handled no
\* event has made one or two writes, two less its pending timer while it
\* is not disposed; and, the host firing every timer, a mount reaches its
\* second write unless it is disposed first.
C16_TwoWritesPerMount ==
    /\ [](\A m \in Mounts :
            context[m] = "ctx" /\ events[m] = 0 =>
               /\ writes[m] \in {1, 2}
               /\ Pending(timeouts, m) <= 1
               /\ ~disposed[m] => writes[m] + Pending(timeouts, m) = 2)
    /\ [][ /\ \A m \in Mounts :
                /\ context[m] = "none" /\ context'[m] = "ctx" =>
                      writes'[m] = 1 /\ Pending(timeouts', m) = 1
                /\ Pending(timeouts', m) > Pending(timeouts, m) =>
                      \/ context[m] = "none"
                      \/ events'[m] = events[m] + 1
           /\ Len(timeouts') < Len(timeouts) =>
                /\ timeouts' = Tail(timeouts)
                /\ \A m \in Mounts :
                      writes'[m] = writes[m] +
                          IF m = Head(timeouts) /\ ~disposed[m] THEN 1 ELSE 0 ]_vars
    /\ \A m \in Mounts :
          context[m] = "ctx" ~> (disposed[m] \/ writes[m] >= 2)

\* A mount that handled no event has made its two writes and has no timer
\* left; the layout has changed since and no write has followed.
C16_Witness ==
    \E m \in Mounts :
        /\ bound = m /\ events[m] = 0
        /\ writes[m] = 2 /\ Pending(timeouts, m) = 0
        /\ lastWrite[m] # computeSize(State)

\* C17: the width and the height of every paint call are non-negative
\* integers, and they are the numbers in the width and height attributes of
\* the canvas.
C17_PaintSizeIsInteger ==
    \A c \in PaintCalls :
        LET w == lastPaint[c].args[1]
            h == lastPaint[c].args[2]
        IN /\ w[1] >= 0 /\ w[1] % w[2] = 0
           /\ h[1] >= 0 /\ h[1] % h[2] = 0
           /\ attrWidth = << w[1] \div w[2] >>
           /\ attrHeight = << h[1] \div h[2] >>

\* C18: size and the canvas width and height attributes change only in a
\* step in which a mount writes its size (but that a render of the
\* component into the tree brings a new canvas, whose attributes are
\* absent until the first write); a frame, whether it paints or
\* not, and an unmount leave every size, the attributes and the write
\* counts as they are; and resize, called by a timer or on its own, leaves
\* context, disposed, the listeners and the pending frame callbacks as they
\* are, as does the handling of a viewport event.
C18_ResizeIsOnlyWriter ==
    /\ [](\A m \in Mounts :
            LET n == resize(State, m)
            IN /\ n.context = context /\ n.disposed = disposed
               /\ n.listeners = listeners /\ n.raf = raf
               /\ n.bound = bound /\ n.lastPaint = <<>>)
    /\ [][ /\ size' # size \/ attrWidth' # attrWidth \/ attrHeight' # attrHeight
                => \/ writes' # writes
                   \/ /\ ~rendered /\ size' = size
                      /\ attrWidth' = <<>> /\ attrHeight' = <<>>
           \* a frame (it paints or it shortens raf), or an unmount
           /\ \/ lastPaint' # <<>> \/ Len(raf') < Len(raf)
              \/ rendered /\ ~rendered' /\ initCalls' = initCalls
              => /\ size' = size /\ writes' = writes /\ lastWrite' = lastWrite
                 /\ attrWidth' = attrWidth /\ attrHeight' = attrHeight
           \* a timer that fires, or a viewport event
           /\ Len(timeouts') < Len(timeouts) \/ events' # events
              => /\ context' = context /\ disposed' = disposed
                 /\ listeners' = listeners /\ raf' = raf ]_vars

\* The component was unmounted and the frame callback left over has run:
\* the size of the mount and the attributes are those of its latest write.
C18_Witness ==
    /\ ~rendered /\ raf = <<>>
    /\ \E m \in Mounts :
          /\ disposed[m] /\ writes[m] >= 1
          /\ size[m] = lastWrite[m]
          /\ attrWidth = << toFixed0(size[m][1]) >>
          /\ attrHeight = << toFixed0(size[m][2]) >>

\* C19: every paint call is made by the mount that is bound when the call
\* is made, with the paint prop that mount was created with, which is the
\* current one, and before the context of that mount is freed; only the
\* bound mount writes its size; and a step that runs a frame callback or a
\* timer left over from a mount that is no longer bound makes no paint call
\* for that mount and leaves the canvas attributes as they are.
C19_PaintByBoundMount ==
    /\ [](\A c \in PaintCalls :
            LET call == lastPaint[c]
            IN /\ call.mount = call.bound
               /\ ~call.released /\ ~call.disposed
               /\ context[call.mount] = "ctx"
               /\ call.fn = paintFn[call.mount]
               /\ call.fn = deps[2])
    /\ [][ \A m \in Mounts :
             /\ writes'[m] # writes[m] => bound' = m /\ freeCalls'[m] = 0
             /\ /\ bound # m
                /\ \/ Pending(raf', m) < Pending(raf, m)
                   \/ Pending(timeouts', m) < Pending(timeouts, m)
                => /\ \A c \in 1..Len(lastPaint') : lastPaint'[c].mount # m
                   /\ attrWidth' = attrWidth /\ attrHeight' = attrHeight
                   /\ size' = size ]_vars

\* After a render with another paint prop the second mount, bound to the
\* same canvas, has just painted; the callbacks of the first have run.
C19_Witness ==
    /\ bound = 2 /\ disposed[1]
    /\ paintFn[1] = "draw_triangle" /\ paintFn[2] = "other_paint"
    /\ Pending(raf, 1) = 0 /\ Pending(timeouts, 1) = 0
    /\ \E c \in PaintCalls :
          lastPaint[c].mount = 2 /\ lastPaint[c].fn = "other_paint"

\* C20: a mount that has a frame callback pending has completed a write of
\* its size, so every paint call is made after a write of its mount and
\* with a pair that is not the initial [0, 0].
C20_PaintAfterFirstWrite ==
    /\ \A m \in Mounts :
          Pending(raf, m) > 0 => writes[m] >= 1 /\ size[m] # ZeroSize
    /\ \A c \in PaintCalls :
          /\ writes[lastPaint[c].mount] >= 1
          /\ lastPaint[c].args # ZeroSize

\* The first frame after the mount: the mount paints when it has made the
\* write of the effect body only, its timer still pending.
C20_Witness ==
    \E c \in PaintCalls :
        LET m == lastPaint[c].mount
        IN /\ writes[m] = 1 /\ events[m] = 0
           /\ Pending(timeouts, m) = 1
           /\ lastPaint[c].args = computeSize(State)

====
